---- MODULE Spec2Model ----
(***************************************************************************)
(* Pawcast mood engine (backend/services/mood_engine.py): the window       *)
(* selector pick_walk_window, the safety filter, the range normaliser and  *)
(* the seven mood scorers, with the text catalog of mood_content.py.       *)
(*                                                                         *)
(* Numbers: the engine computes with Python floats.  The model computes    *)
(* with exact rationals <<n, d>> (d > 0, lowest terms), so a score is the  *)
(* real number the float arithmetic approximates.  Forecast values are     *)
(* whole numbers.                                                          *)
(***************************************************************************)
EXTENDS Integers, Sequences, FiniteSets, TLC

VARIABLES mood_name, hours, sun, who, scored, result, pc,
          val, lo, hi, pos,
          hour, ranges, score,
          outcomes,
          body, dogs, geo, hourly, response, steps, walk_requests,
          now, ticks, cache, rate_lock, last_request_at, tasks, sent, stored

vars == <<mood_name, hours, sun, who, scored, result, pc, val, lo, hi, pos,
          hour, ranges, score, outcomes,
          body, dogs, geo, hourly, response, steps, walk_requests,
          now, ticks, cache, rate_lock, last_request_at, tasks, sent, stored>>

engineVars == <<mood_name, hours, sun, who, scored, result>>

posVars == <<val, lo, hi, pos>>

scoreVars == <<hour, ranges, score>>

walkVars == <<body, dogs, geo, hourly, response, steps, walk_requests>>

autoVars ==
    <<now, ticks, cache, rate_lock, last_request_at, tasks, sent, stored>>

\* the variables of a call that is not being made keep fixed values
PosIdle == val = 0 /\ lo = 0 /\ hi = 0 /\ pos = <<0, 1>>

ScoreIdle == hour = <<>> /\ ranges = <<>> /\ score = <<0, 1>>

TwiceIdle == outcomes = <<>>

WalkIdle ==
    /\ body = <<>> /\ dogs = {} /\ geo = "" /\ hourly = <<>>
    /\ response = <<>> /\ steps = <<>> /\ walk_requests = <<>>

AutoIdle ==
    /\ now = 0 /\ ticks = 0 /\ cache = <<>> /\ rate_lock = <<>>
    /\ last_request_at = 0 /\ tasks = <<>> /\ sent = <<>> /\ stored = <<>>

IdleExcept(made) ==
    /\ "pos" \notin made => PosIdle
    /\ "score" \notin made => ScoreIdle
    /\ "twice" \notin made => TwiceIdle
    /\ "walk" \notin made => WalkIdle
    /\ "auto" \notin made => AutoIdle

(***************************************************************************)
(* Exact rational arithmetic                                               *)
(***************************************************************************)
Abs(x) == IF x < 0 THEN -x ELSE x

RECURSIVE Gcd(_, _)
Gcd(a, b) == IF b = 0 THEN a ELSE Gcd(b, a % b)

Lcm(a, b) == (a \div Gcd(a, b)) * b

\* n/d for d # 0, in lowest terms with a positive denominator
Rat(n, d) ==
    LET s == IF d < 0 THEN -1 ELSE 1
        g == Gcd(Abs(n), Abs(d))
    IN  <<(s * n) \div g, (s * d) \div g>>

RInt(k) == <<k, 1>>

RAdd(a, b) ==
    LET l == Lcm(a[2], b[2])
    IN  Rat(a[1] * (l \div a[2]) + b[1] * (l \div b[2]), l)

RNeg(a) == <<-a[1], a[2]>>

RSub(a, b) == RAdd(a, RNeg(b))

\* a * k for an integer k
RScale(a, k) ==
    LET g == Gcd(Abs(k), a[2])
    IN  Rat(a[1] * (k \div g), a[2] \div g)

RAbs(a) == <<Abs(a[1]), a[2]>>

RLt(a, b) ==
    LET l == Lcm(a[2], b[2])
    IN  a[1] * (l \div a[2]) < b[1] * (l \div b[2])

RLe(a, b) == ~RLt(b, a)

RMax(a, b) == IF RLt(a, b) THEN b ELSE a

RMin(a, b) == IF RLt(b, a) THEN b ELSE a

(***************************************************************************)
(* Safety limits                                                           *)
(***************************************************************************)
UNSAFE_WIND_MS == 18
UNSAFE_RAIN_PCT == 95
UNSAFE_TEMP_MIN == -30

IsSafeLoose(h) ==
    /\ h.wind_speed <= UNSAFE_WIND_MS
    /\ h.rain_prob <= UNSAFE_RAIN_PCT
    /\ h.temp >= UNSAFE_TEMP_MIN

\* _is_safe
IsSafe(h) ==
    /\ h.wind_speed < UNSAFE_WIND_MS
    /\ h.rain_prob < UNSAFE_RAIN_PCT
    /\ h.temp > UNSAFE_TEMP_MIN

(***************************************************************************)
(* Relative-range helpers                                                  *)
(***************************************************************************)
SeqMin(s) == CHOOSE m \in {s[i] : i \in DOMAIN s} : \A i \in DOMAIN s : m <= s[i]
SeqMax(s) == CHOOSE m \in {s[i] : i \in DOMAIN s} : \A i \in DOMAIN s : m >= s[i]

\* _temp_range, _wind_range, _rain_range (callers guard against an empty list:
\* Python's min() of an empty list raises ValueError)
TempRange(hs) == LET t == [i \in DOMAIN hs |-> hs[i].temp] IN <<SeqMin(t), SeqMax(t)>>
WindRange(hs) == LET w == [i \in DOMAIN hs |-> hs[i].wind_speed] IN <<SeqMin(w), SeqMax(w)>>
RainRange(hs) == LET r == [i \in DOMAIN hs |-> hs[i].rain_prob] IN <<SeqMin(r), SeqMax(r)>>

RelativePositionUnclamped(v, l, h) ==
    IF h = l THEN Rat(1, 2) ELSE Rat(v - l, h - l)

\* _relative_position
RelativePosition(v, l, h) ==
    IF h = l THEN Rat(1, 2)
    ELSE RMax(RInt(0), RMin(RInt(1), Rat(v - l, h - l)))

\* _is_daylight: the hour's wall-clock time against [sunrise, sunset]
IsDaylight(h, s) == s.sunrise <= h.dt /\ h.dt <= s.sunset

(***************************************************************************)
(* Mood scorers (higher score = better window)                             *)
(***************************************************************************)
ScoreLowBatteryAbsolute(h, s, tlo, thi, wlo, whi, rlo, rhi) ==
    IF ~IsDaylight(h, s) THEN RInt(0)
    ELSE
      LET rain_pos == RelativePosition(h.rain_prob, rlo, rhi)
          wind_pos == RelativePosition(h.wind_speed, wlo, whi)
          s1 == IF h.temp > 0 THEN RInt(125) ELSE RInt(100)
          s2 == RSub(s1, RScale(rain_pos, 35))
          s3 == RSub(s2, RScale(wind_pos, 20))
          s4 == IF h.cloud_cover < 30 THEN RAdd(s3, RInt(15))
                ELSE IF h.cloud_cover > 80 THEN RSub(s3, RInt(15))
                ELSE s3
      IN  RMax(RInt(0), s4)

ScoreLowBatteryColder(h, s, tlo, thi, wlo, whi, rlo, rhi) ==
    IF ~IsDaylight(h, s) THEN RInt(0)
    ELSE
      LET temp_pos == RelativePosition(h.temp, tlo, thi)
          rain_pos == RelativePosition(h.rain_prob, rlo, rhi)
          wind_pos == RelativePosition(h.wind_speed, wlo, whi)
          s1 == RSub(RInt(100), RScale(temp_pos, 25))
          s2 == RSub(s1, RScale(rain_pos, 35))
          s3 == RSub(s2, RScale(wind_pos, 20))
          s4 == IF h.cloud_cover < 30 THEN RAdd(s3, RInt(15))
                ELSE IF h.cloud_cover > 80 THEN RSub(s3, RInt(15))
                ELSE s3
      IN  RMax(RInt(0), s4)

\* _score_low_battery_human
ScoreLowBatteryHuman(h, s, tlo, thi, wlo, whi, rlo, rhi) ==
    IF ~IsDaylight(h, s) THEN RInt(0)
    ELSE
      LET temp_pos == RelativePosition(h.temp, tlo, thi)
          rain_pos == RelativePosition(h.rain_prob, rlo, rhi)
          wind_pos == RelativePosition(h.wind_speed, wlo, whi)
          s1 == RAdd(RInt(100), RScale(temp_pos, 25))
          s2 == RSub(s1, RScale(rain_pos, 35))
          s3 == RSub(s2, RScale(wind_pos, 20))
          s4 == IF h.cloud_cover < 30 THEN RAdd(s3, RInt(15))
                ELSE IF h.cloud_cover > 80 THEN RSub(s3, RInt(15))
                ELSE s3
      IN  RMax(RInt(0), s4)

\* _score_posture_emergency
ScorePostureEmergency(h, s, tlo, thi, wlo, whi, rlo, rhi) ==
    IF ~IsDaylight(h, s) THEN RInt(0)
    ELSE
      LET temp_pos == RelativePosition(h.temp, tlo, thi)
          rain_pos == RelativePosition(h.rain_prob, rlo, rhi)
          wind_pos == RelativePosition(h.wind_speed, wlo, whi)
          s1 == RSub(RInt(100), RScale(RAbs(RSub(temp_pos, Rat(6, 10))), 30))
          s2 == RSub(s1, RScale(rain_pos, 40))
          s3 == RSub(s2, RScale(wind_pos, 20))
      IN  RMax(RInt(0), s3)

\* _score_doomscroll_detox
ScoreDoomscrollDetox(h, s, tlo, thi, wlo, whi, rlo, rhi) ==
    LET s0 == IF ~IsDaylight(h, s) THEN RInt(75) ELSE RInt(100)
        temp_pos == RelativePosition(h.temp, tlo, thi)
        rain_pos == RelativePosition(h.rain_prob, rlo, rhi)
        wind_pos == RelativePosition(h.wind_speed, wlo, whi)
        s1 == RSub(s0, RScale(RAbs(RSub(temp_pos, Rat(5, 10))), 25))
        s2 == IF RLt(Rat(7, 10), rain_pos)
              THEN RSub(s1, RScale(RSub(rain_pos, Rat(7, 10)), 40))
              ELSE s1
        s3 == RSub(s2, RScale(wind_pos, 20))
    IN  RMax(RInt(0), s3)

ScoreBurnoutRecoveryUncapped(h, s, tlo, thi, wlo, whi, rlo, rhi) ==
    LET s0 == IF ~IsDaylight(h, s) THEN RInt(80) ELSE RInt(100)
        temp_pos == RelativePosition(h.temp, tlo, thi)
        wind_pos == RelativePosition(h.wind_speed, wlo, whi)
        rain_pos == RelativePosition(h.rain_prob, rlo, rhi)
        s1 == RSub(s0, RScale(RAbs(RSub(temp_pos, Rat(35, 100))), 25))
        s2 == IF RLt(wind_pos, Rat(1, 10)) THEN RSub(s1, RInt(10))
              ELSE IF RLt(Rat(7, 10), wind_pos) THEN RSub(s1, RInt(25))
              ELSE s1
        s3 == RSub(s2, RScale(rain_pos, 25))
        s4 == IF 30 <= h.cloud_cover /\ h.cloud_cover <= 75
              THEN RAdd(s3, RInt(12)) ELSE s3
    IN  RMax(RInt(0), s4)

\* _score_burnout_recovery
ScoreBurnoutRecovery(h, s, tlo, thi, wlo, whi, rlo, rhi) ==
    LET s0 == IF ~IsDaylight(h, s) THEN RInt(80) ELSE RInt(100)
        temp_pos == RelativePosition(h.temp, tlo, thi)
        wind_pos == RelativePosition(h.wind_speed, wlo, whi)
        rain_pos == RelativePosition(h.rain_prob, rlo, rhi)
        s1 == RSub(s0, RScale(RAbs(RSub(temp_pos, Rat(35, 100))), 25))
        s2 == IF RLt(wind_pos, Rat(1, 10)) THEN RSub(s1, RInt(10))
              ELSE IF RLt(Rat(7, 10), wind_pos) THEN RSub(s1, RInt(25))
              ELSE s1
        s3 == RSub(s2, RScale(rain_pos, 25))
        s4 == IF 30 <= h.cloud_cover /\ h.cloud_cover <= 75
              THEN RAdd(s3, RInt(12)) ELSE s3
    IN  RMax(RInt(0), RMin(RInt(110), s4))

ScoreLongTermHealthHarsh(h, s, tlo, thi, wlo, whi, rlo, rhi) ==
    LET temp_pos == RelativePosition(h.temp, tlo, thi)
        wind_pos == RelativePosition(h.wind_speed, wlo, whi)
        rain_pos == RelativePosition(h.rain_prob, rlo, rhi)
        s1 == RSub(RInt(100), RScale(RAbs(RSub(temp_pos, Rat(45, 100))), 30))
        s2 == RSub(s1, RScale(wind_pos, 20))
        s3 == RSub(s2, RScale(rain_pos, 30))
        s4 == IF h.uv_index > 7 THEN RSub(s3, RInt(25)) ELSE s3
    IN  RMax(RInt(0), s4)

\* _score_long_term_health
ScoreLongTermHealth(h, s, tlo, thi, wlo, whi, rlo, rhi) ==
    LET temp_pos == RelativePosition(h.temp, tlo, thi)
        wind_pos == RelativePosition(h.wind_speed, wlo, whi)
        rain_pos == RelativePosition(h.rain_prob, rlo, rhi)
        s1 == RSub(RInt(100), RScale(RAbs(RSub(temp_pos, Rat(45, 100))), 30))
        s2 == RSub(s1, RScale(wind_pos, 20))
        s3 == RSub(s2, RScale(rain_pos, 30))
        s4 == IF h.uv_index > 7 THEN RSub(s3, RInt(20)) ELSE s3
    IN  RMax(RInt(0), s4)

\* _score_hygiene_intervention
ScoreHygieneIntervention(h, s, tlo, thi, wlo, whi, rlo, rhi) ==
    LET rain_pos == RelativePosition(h.rain_prob, rlo, rhi)
        cloud_bonus == RelativePosition(h.cloud_cover, 0, 100)
        wind_pos == RelativePosition(h.wind_speed, wlo, whi)
        s1 == RScale(rain_pos, 60)
        s2 == RAdd(s1, RScale(cloud_bonus, 20))
        s3 == IF RLt(Rat(2, 10), wind_pos) /\ RLt(wind_pos, Rat(6, 10))
              THEN RAdd(s2, RInt(10)) ELSE s2
    IN  IF ~IsSafe(h) THEN RInt(0)
        ELSE RMax(RInt(0), RMin(RInt(100), s3))

ScoreCharacterDevelopmentWarm(h, s, tlo, thi, wlo, whi, rlo, rhi) ==
    LET wind_pos == RelativePosition(h.wind_speed, wlo, whi)
        temp_pos == RelativePosition(h.temp, tlo, thi)
        rain_pos == RelativePosition(h.rain_prob, rlo, rhi)
        cloud_pos == RelativePosition(h.cloud_cover, 0, 100)
        s1 == RScale(wind_pos, 35)
        s2 == RAdd(s1, RScale(temp_pos, 30))
        s3 == RAdd(s2, RScale(rain_pos, 25))
        s4 == RAdd(s3, RScale(cloud_pos, 10))
    IN  IF ~IsSafe(h) THEN RInt(0)
        ELSE RMax(RInt(0), RMin(RInt(100), s4))

\* _score_character_development
ScoreCharacterDevelopment(h, s, tlo, thi, wlo, whi, rlo, rhi) ==
    LET wind_pos == RelativePosition(h.wind_speed, wlo, whi)
        temp_pos == RelativePosition(h.temp, tlo, thi)
        rain_pos == RelativePosition(h.rain_prob, rlo, rhi)
        cloud_pos == RelativePosition(h.cloud_cover, 0, 100)
        s1 == RScale(wind_pos, 35)
        s2 == RAdd(s1, RScale(RSub(RInt(1), temp_pos), 30))
        s3 == RAdd(s2, RScale(rain_pos, 25))
        s4 == RAdd(s3, RScale(cloud_pos, 10))
    IN  IF ~IsSafe(h) THEN RInt(0)
        ELSE RMax(RInt(0), RMin(RInt(100), s4))

(***************************************************************************)
(* Mood registry and text catalog                                          *)
(***************************************************************************)
\* keys of DIAGNOSTIC_MOODS
DIAGNOSTIC_MOODS ==
    {"low_battery", "posture_emergency", "doomscroll_detox", "burnout_recovery",
     "long_term_health", "hygiene_intervention", "character_development"}

MoodContentMissingKey ==
    {"low_battery", "posture_emergency", "doomscroll_detox", "long_term_health",
     "burnout_recovery", "hygiene_intervention"}

\* keys of MOOD_CONTENT
MOOD_CONTENT ==
    {"low_battery", "posture_emergency", "doomscroll_detox", "long_term_health",
     "burnout_recovery", "hygiene_intervention", "character_development"}

\* the scorer DIAGNOSTIC_MOODS[m] applied to its arguments
Scorer(m, h, s, tlo, thi, wlo, whi, rlo, rhi) ==
    CASE m = "low_battery" -> ScoreLowBatteryHuman(h, s, tlo, thi, wlo, whi, rlo, rhi)
      [] m = "posture_emergency" -> ScorePostureEmergency(h, s, tlo, thi, wlo, whi, rlo, rhi)
      [] m = "doomscroll_detox" -> ScoreDoomscrollDetox(h, s, tlo, thi, wlo, whi, rlo, rhi)
      [] m = "burnout_recovery" -> ScoreBurnoutRecovery(h, s, tlo, thi, wlo, whi, rlo, rhi)
      [] m = "long_term_health" -> ScoreLongTermHealth(h, s, tlo, thi, wlo, whi, rlo, rhi)
      [] m = "hygiene_intervention" -> ScoreHygieneIntervention(h, s, tlo, thi, wlo, whi, rlo, rhi)
      [] m = "character_development" -> ScoreCharacterDevelopment(h, s, tlo, thi, wlo, whi, rlo, rhi)

\* _DIAGNOSTIC_FALLBACKS: the four messages, by position
DIAGNOSTIC_FALLBACKS == {"fallback_1", "fallback_2", "fallback_3", "fallback_4"}

(***************************************************************************)
(* Text catalog helpers (mood_content.py)                                  *)
(***************************************************************************)
\* MOOD_CONTENT[m][field]: the catalog text, abbreviated to its identity; a
\* diagnosis is the token list around the {human} placeholder it contains
MoodText(m, field) ==
    IF field = "diagnosis"
    THEN <<"diagnosis[" \o m \o "]: ", "{human}", " ...">>
    ELSE <<field \o "[" \o m \o "]">>

RECURSIVE Join(_)
Join(tokens) ==
    IF tokens = <<>> THEN "" ELSE Head(tokens) \o Join(Tail(tokens))

\* str.replace("{human}", human_str) on a token list
ReplaceHuman(tokens, human_str) ==
    [i \in DOMAIN tokens |-> IF tokens[i] = "{human}" THEN human_str ELSE tokens[i]]

\* format_texts, for a mood of the catalog (get_mood raises KeyError otherwise)
FormatTexts(m, human_name, relationship) ==
    LET human_str == human_name \o " (your " \o relationship \o ")"
    IN  [diagnosis |-> Join(ReplaceHuman(MoodText(m, "diagnosis"), human_str)),
         prescription |-> Join(MoodText(m, "prescription")),
         experts_recommend |-> Join(MoodText(m, "experts_recommend"))]

ConditionCommentaryAll(temp, wind, rain) ==
    (IF temp < -10
     THEN "It is " \o ToString(temp) \o "C outside. Paw-freezing territory. Frozen ground protocol engaged. "
     ELSE IF temp < 0
     THEN "Below zero at " \o ToString(temp) \o "C. Bundle them up and go anyway. "
     ELSE "")
    \o (IF wind > 12
        THEN "Wind at " \o ToString(wind) \o " m/s. Hold onto your human. "
        ELSE "")
    \o (IF rain > 80
        THEN "Heavy rain incoming. Nature's power-wash activated. "
        ELSE "")

\* _condition_commentary; {temp:.0f} of a whole number prints the number
ConditionCommentary(temp, wind, rain) ==
    IF temp < -10
    THEN "It is " \o ToString(temp) \o "C outside. Paw-freezing territory. Frozen ground protocol engaged. "
    ELSE IF temp < 0
    THEN "Below zero at " \o ToString(temp) \o "C. Bundle them up and go anyway. "
    ELSE IF wind > 12
    THEN "Wind at " \o ToString(wind) \o " m/s. Hold onto your human. "
    ELSE IF rain > 80
    THEN "Heavy rain incoming. Nature's power-wash activated. "
    ELSE ""

\* strftime("%H"), strftime("%M"): two digits, zero padded
Pad2(n) == IF n < 10 THEN "0" \o ToString(n) ELSE ToString(n)

\* time_str: dt is the hour's start, counted in whole hours from midnight
TimeStr(dt) ==
    Pad2(dt % 24) \o ":" \o Pad2(0) \o "-" \o Pad2(dt % 24) \o ":59"

(***************************************************************************)
(* Main engine                                                             *)
(***************************************************************************)
NoWeather ==
    [temp |-> 0, wind |-> 0, rain_probability |-> 0, cloud_cover |-> 0, uv_index |-> 0]

\* the exception leaving pick_walk_window
Raised(exc, msg, m, w) ==
    [kind |-> "raise", exc |-> exc, msg |-> msg,
     mood |-> m, recommended_time |-> "", diagnosis |-> "",
     prescription |-> "", experts_recommend |-> "", weather |-> NoWeather,
     dog_name |-> w.dog_name, human_name |-> w.human_name,
     human_relationship |-> w.relationship]

FallbackResponseSwapped(m, w, choice) ==
    [kind |-> "return", exc |-> "", msg |-> "",
     mood |-> m, recommended_time |-> "N/A", diagnosis |-> choice,
     prescription |-> "Try again tomorrow. Or just open a window and point at it.",
     experts_recommend |-> "Hydration. Rest. Lower expectations.",
     weather |-> NoWeather,
     dog_name |-> w.human_name, human_name |-> w.dog_name,
     human_relationship |-> w.relationship]

FallbackResponseDrawn(m, w, choice) ==
    [kind |-> "return", exc |-> "", msg |-> "",
     mood |-> m, recommended_time |-> "N/A", diagnosis |-> choice,
     prescription |-> choice,
     experts_recommend |-> "Hydration. Rest. Lower expectations.",
     weather |-> NoWeather,
     dog_name |-> w.dog_name, human_name |-> w.human_name,
     human_relationship |-> w.relationship]

\* _fallback_response, with choice the message random.choice draws
FallbackResponse(m, w, choice) ==
    [kind |-> "return", exc |-> "", msg |-> "",
     mood |-> m, recommended_time |-> "N/A", diagnosis |-> choice,
     prescription |-> "Try again tomorrow. Or just open a window and point at it.",
     experts_recommend |-> "Hydration. Rest. Lower expectations.",
     weather |-> NoWeather,
     dog_name |-> w.dog_name, human_name |-> w.human_name,
     human_relationship |-> w.relationship]

\* the response dict built from the best hour; round() of a whole number is
\* that number
Recommendation(m, h, w) ==
    LET texts == FormatTexts(m, w.human_name, w.relationship)
    IN  [kind |-> "return", exc |-> "", msg |-> "",
         mood |-> m, recommended_time |-> TimeStr(h.dt),
         diagnosis |-> ConditionCommentary(h.temp, h.wind_speed, h.rain_prob)
                         \o texts.diagnosis,
         prescription |-> texts.prescription,
         experts_recommend |-> texts.experts_recommend,
         weather |-> [temp |-> h.temp, wind |-> h.wind_speed,
                      rain_probability |-> h.rain_prob,
                      cloud_cover |-> h.cloud_cover, uv_index |-> h.uv_index],
         dog_name |-> w.dog_name, human_name |-> w.human_name,
         human_relationship |-> w.relationship]

SafeIndices(hs) == {i \in DOMAIN hs : IsSafe(hs[i])}

\* the list `scored` as the loop leaves it: one ScoredWindow per safe hour, in
\* batch order (idx is the hour's position in the batch)
RECURSIVE ScoreLoop(_, _, _, _, _, _, _)
ScoreLoop(i, m, hs, s, tr, wr, rr) ==
    IF i > Len(hs) THEN <<>>
    ELSE IF ~IsSafe(hs[i]) THEN ScoreLoop(i + 1, m, hs, s, tr, wr, rr)
    ELSE <<[idx |-> i,
            score |-> Scorer(m, hs[i], s, tr[1], tr[2], wr[1], wr[2], rr[1], rr[2])]>>
         \o ScoreLoop(i + 1, m, hs, s, tr, wr, rr)

\* where x goes in a list sorted by descending score: behind every element
\* that scores at least as much (stable)
RECURSIVE InsertDesc(_, _)
InsertDescFirst(x, sorted) ==
    IF sorted = <<>> THEN <<x>>
    ELSE IF RLe(Head(sorted).score, x.score) THEN <<x>> \o sorted
    ELSE <<Head(sorted)>> \o InsertDesc(x, Tail(sorted))

InsertDesc(x, sorted) ==
    IF sorted = <<>> THEN <<x>>
    ELSE IF RLt(Head(sorted).score, x.score) THEN <<x>> \o sorted
    ELSE <<Head(sorted)>> \o InsertDesc(x, Tail(sorted))

\* scored.sort(key=score, reverse=True): a stable descending sort
RECURSIVE SortDesc(_)
SortDesc(sc) ==
    IF sc = <<>> THEN <<>>
    ELSE InsertDesc(sc[Len(sc)], SortDesc(SubSeq(sc, 1, Len(sc) - 1)))

RangeHoursFiltered(hs) ==
    IF SafeIndices(hs) = {} THEN hs ELSE SelectSeq(hs, IsSafe)

\* the list the three ranges are computed over
RangeHours(hs) == hs

MinScoreNone == RInt(0)

\* the threshold a best score must reach
MinScore == RInt(10)

\* best.score < 10
IsFallbackScore(best) == RLt(best.score, MinScore)

\* raise ValueError(f"Unknown mood ...")
UnknownMood(m, w) == Raised("ValueError", "Unknown mood", m, w)

\* min() of the empty list in _temp_range
EmptyRange(m, w) == Raised("ValueError", "min() arg is an empty sequence", m, w)

\* pick_walk_window up to its return or raise: the list `scored` as it is then
\* (sorted once the sort is reached) and the exit taken
PickWalkWindowPath(m, hs, s) ==
    IF m \notin DIAGNOSTIC_MOODS
    THEN [scored |-> <<>>, exit |-> "unknown_mood"]
    ELSE IF RangeHours(hs) = <<>>
    THEN [scored |-> <<>>, exit |-> "empty_range"]
    ELSE
      LET rh == RangeHours(hs)
          tr == TempRange(rh)
          wr == WindRange(rh)
          rr == RainRange(rh)
          sc == ScoreLoop(1, m, hs, s, tr, wr, rr)
      IN  IF sc = <<>>
          THEN [scored |-> sc, exit |-> "no_safe_hour"]
          ELSE
            LET sorted == SortDesc(sc)
            IN  IF IsFallbackScore(sorted[1])
                THEN [scored |-> sorted, exit |-> "low_score"]
                ELSE IF m \notin MOOD_CONTENT
                THEN [scored |-> sorted, exit |-> "get_mood_raises"]
                ELSE [scored |-> sorted, exit |-> "best"]

\* what leaves pick_walk_window at that exit; choice is the message
\* random.choice draws in _fallback_response
PickWalkWindowResult(path, m, hs, w, choice) ==
    CASE path.exit = "unknown_mood" -> UnknownMood(m, w)
      [] path.exit = "empty_range" -> EmptyRange(m, w)
      [] path.exit = "no_safe_hour" -> FallbackResponse(m, w, choice)
      [] path.exit = "low_score" -> FallbackResponse(m, w, choice)
      [] path.exit = "get_mood_raises" -> Raised("KeyError", "Unknown mood", m, w)
      [] path.exit = "best" -> Recommendation(m, hs[path.scored[1].idx], w)

(***************************************************************************)
(* Inputs                                                                  *)
(***************************************************************************)
\* longest forecast batch
MaxHours == 2

\* dt of the first hour of a batch; the forecast is hourly
FirstDt == 6

\* forecast readings <<temp, wind_speed, rain_prob, cloud_cover, uv_index>>:
\* a cold/mild x calm/windy x dry/wet grid of safe readings under a clear sky,
SafeGrid ==
    {<<t, w, r, 20, 2>> : t \in {-12, 4}, w \in {3, 13}, r \in {10, 85}}

\* two safe readings under other skies,
SafeSkies == {<<4, 3, 10, 50, 2>>, <<4, 3, 10, 90, 8>>}

\* and readings on a safety limit: on one limit each, and on all three
OnLimit ==
    {<<UNSAFE_TEMP_MIN, 3, 10, 20, 2>>, <<4, UNSAFE_WIND_MS, 10, 20, 2>>,
     <<4, 3, UNSAFE_RAIN_PCT, 20, 2>>,
     <<UNSAFE_TEMP_MIN, UNSAFE_WIND_MS, UNSAFE_RAIN_PCT, 20, 2>>}

Readings ==
    {[temp |-> x[1], wind_speed |-> x[2], rain_prob |-> x[3],
      cloud_cover |-> x[4], uv_index |-> x[5]] :
     x \in SafeGrid \cup SafeSkies \cup OnLimit}

\* HourlyWeather at position i of a batch
HourAt(i, r) ==
    [dt |-> FirstDt + i - 1, temp |-> r.temp, wind_speed |-> r.wind_speed,
     rain_prob |-> r.rain_prob, cloud_cover |-> r.cloud_cover,
     uv_index |-> r.uv_index]

Batches ==
    UNION {{[i \in 1..n |-> HourAt(i, f[i])] : f \in [1..n -> Readings]} :
           n \in 0..MaxHours}

\* SunTimes: daylight over the whole batch, from the second hour on, and over
\* before the batch starts
SunVals ==
    {[sunrise |-> FirstDt, sunset |-> FirstDt + 12],
     [sunrise |-> FirstDt + 1, sunset |-> FirstDt + 12],
     [sunrise |-> 0, sunset |-> FirstDt - 1]}

MoodNames == DIAGNOSTIC_MOODS \cup {"zoomies"}

Identities == {[dog_name |-> "Rex", human_name |-> "Sam", relationship |-> "mom"]}

NoResult ==
    [kind |-> "none", exc |-> "", msg |-> "",
     mood |-> "", recommended_time |-> "", diagnosis |-> "",
     prescription |-> "", experts_recommend |-> "", weather |-> NoWeather,
     dog_name |-> "", human_name |-> "", human_relationship |-> ""]

(***************************************************************************)
(* The engine as a state machine: one call of pick_walk_window             *)
(***************************************************************************)
Init ==
    /\ mood_name \in MoodNames
    /\ hours \in Batches
    /\ sun \in SunVals
    /\ who \in Identities
    /\ scored = <<>>
    /\ result = NoResult
    /\ pc = "call"
    /\ IdleExcept({})

PickWalkWindow ==
    /\ pc = "call"
    /\ LET path == PickWalkWindowPath(mood_name, hours, sun)
       IN  /\ scored' = path.scored
           /\ \E choice \in DIAGNOSTIC_FALLBACKS :
                result' = PickWalkWindowResult(path, mood_name, hours, who, choice)
    /\ pc' = "done"
    /\ UNCHANGED <<mood_name, hours, sun, who, posVars, scoreVars, outcomes, walkVars, autoVars>>

Next == PickWalkWindow

Spec == Init /\ [][Next]_vars

(***************************************************************************)
(* Vocabulary of the properties                                            *)
(***************************************************************************)
Done == pc = "done"

Registered == mood_name \in DIAGNOSTIC_MOODS

Returned == Done /\ result.kind = "return"

IsFallback == Returned /\ result.recommended_time = "N/A"

NonFallback == Returned /\ result.recommended_time # "N/A"

\* the batch positions the recommendation's time window names
ReportedHours ==
    {i \in DOMAIN hours : result.recommended_time = TimeStr(hours[i].dt)}

ScoredHours == {scored[k].idx : k \in DOMAIN scored}

\* the score the engine gave the hour at position i
ScoreOf(i) == (CHOOSE k \in DOMAIN scored : scored[k].idx = i)

WithinLimits(h) == h.wind_speed < 18 /\ h.rain_prob < 95 /\ h.temp > -30

HoursWithinLimits == {i \in DOMAIN hours : WithinLimits(hours[i])}

ZeroWeather(w) ==
    /\ w.temp = 0 /\ w.wind = 0 /\ w.rain_probability = 0
    /\ w.cloud_cover = 0 /\ w.uv_index = 0

(***************************************************************************)
(* C1: with a registered mood and at least one safe hour, the result is    *)
(* a recommendation (recommended_time other than "N/A") if and only if the *)
(* highest score among the safe hours is at least 10, and the fallback     *)
(* response when that score is below 10.                                   *)
(***************************************************************************)
TopScoreAtLeast10 ==
    \E k \in DOMAIN scored : RLe(<<10, 1>>, scored[k].score)

\* C1: recommendation iff the top score of the safe hours is at least 10
C1_ThresholdDecides ==
    (Done /\ Registered /\ HoursWithinLimits # {}) =>
        /\ ScoredHours = HoursWithinLimits
        /\ NonFallback <=> TopScoreAtLeast10
        /\ ~TopScoreAtLeast10 => IsFallback

\* a safe hour scored above 0 and every safe hour below 10: fallback
C1_Witness ==
    /\ Done /\ Registered /\ HoursWithinLimits # {}
    /\ \E k \in DOMAIN scored : RLt(<<0, 1>>, scored[k].score)
    /\ ~TopScoreAtLeast10
    /\ IsFallback

(***************************************************************************)
(* C2: the hours that get scored are exactly the hours with wind < 18,     *)
(* rain < 95 and temp > -30; a recommendation never names an hour outside  *)
(* that set.                                                               *)
(***************************************************************************)
C2_SafetyFilter ==
    (Done /\ Registered /\ hours # <<>>) =>
        /\ ScoredHours = HoursWithinLimits
        /\ NonFallback => ReportedHours \subseteq HoursWithinLimits

\* a recommendation from a batch that holds an hour on a safety limit
C2_Witness ==
    /\ NonFallback
    /\ HoursWithinLimits # DOMAIN hours
    /\ ReportedHours # {}

(***************************************************************************)
(* C3: the hour of a recommendation scores at least as much as every safe  *)
(* hour, and is the first in batch order among the hours with that score.  *)
(***************************************************************************)
C3_BestAndFirst ==
    NonFallback =>
        /\ Cardinality(ReportedHours) = 1
        /\ \A b \in ReportedHours : \A k \in DOMAIN scored :
              /\ RLe(scored[k].score, scored[ScoreOf(b)].score)
              /\ scored[k].score = scored[ScoreOf(b)].score => b <= scored[k].idx

\* a recommendation where two hours share the top score
C3_Witness ==
    /\ NonFallback
    /\ \E b \in ReportedHours : \E k \in DOMAIN scored :
          /\ scored[k].idx # b
          /\ scored[k].score = scored[ScoreOf(b)].score

(***************************************************************************)
(* C4: a mood that is not registered ends in the unknown-mood error for    *)
(* every batch, never in a response, and no outcome of a registered mood   *)
(* is signalled the way the unknown-mood error is (a ValueError).          *)
(***************************************************************************)
SignalsValueError == result.kind = "raise" /\ result.exc = "ValueError"

C5_EmptyBatchFallback ==
    (Done /\ Registered /\ hours = <<>>) =>
        /\ IsFallback
        /\ ZeroWeather(result.weather)

(***************************************************************************)
(* C6: a registered mood on a non-empty batch with no safe hour returns    *)
(* the fallback response: "N/A", zeroed weather, a message of the fallback *)
(* pool, the mood and the identity fields echoed; it does not raise.       *)
(***************************************************************************)
C6_NoSafeHourFallback ==
    (Done /\ Registered /\ hours # <<>> /\ HoursWithinLimits = {}) =>
        /\ IsFallback
        /\ ZeroWeather(result.weather)
        /\ result.diagnosis \in DIAGNOSTIC_FALLBACKS
        /\ result.mood = mood_name
        /\ result.dog_name = who.dog_name
        /\ result.human_name = who.human_name
        /\ result.human_relationship = who.relationship

C6_Witness ==
    /\ Done /\ Registered /\ Len(hours) = 2 /\ HoursWithinLimits = {}
    /\ IsFallback

(***************************************************************************)
(* C7: the ranges behind every score.  As claimed: the (min, max) of       *)
(* temperature, wind and rain over the safe hours only.  As the code has   *)
(* it: over the whole batch, unsafe hours included.                        *)
(***************************************************************************)
ScoreWithRangesOver(i, hs) ==
    LET tr == TempRange(hs)
        wr == WindRange(hs)
        rr == RainRange(hs)
    IN  Scorer(mood_name, hours[i], sun, tr[1], tr[2], wr[1], wr[2], rr[1], rr[2])

\* C7 as claimed: every score is taken against the ranges of the safe hours
C7_RangesOverSafeHours ==
    (Done /\ Registered) =>
        \A k \in DOMAIN scored :
            scored[k].score = ScoreWithRangesOver(scored[k].idx, SelectSeq(hours, WithinLimits))

\* C7 as amended: every score is taken against the ranges of the whole batch
C7_RangesOverWholeBatch ==
    (Done /\ Registered) =>
        \A k \in DOMAIN scored :
            scored[k].score = ScoreWithRangesOver(scored[k].idx, hours)

\* a safe hour whose score depends on an unsafe hour of the batch
C7_Witness ==
    /\ Done /\ Registered
    /\ \E k \in DOMAIN scored :
          /\ scored[k].score = ScoreWithRangesOver(scored[k].idx, hours)
          /\ scored[k].score # ScoreWithRangesOver(scored[k].idx, SelectSeq(hours, WithinLimits))

(***************************************************************************)
(* C8: climate invariance of low_battery and character_development.  As    *)
(* claimed: adding any constant to every temperature leaves the selected   *)
(* position (or the fallback) unchanged.  As the code has it: for the      *)
(* constants that move no hour across the -30 safety limit.                *)
(***************************************************************************)
Offsets == {-5, 5, 20}

Shifted(hs, c) == [i \in DOMAIN hs |-> [hs[i] EXCEPT !.temp = @ + c]]

\* position of the selected hour, 0 for the fallback, -1 for an error
Selection(m, hs, s) ==
    LET path == PickWalkWindowPath(m, hs, s)
    IN  CASE path.exit = "best" -> path.scored[1].idx
          [] path.exit \in {"no_safe_hour", "low_score"} -> 0
          [] OTHER -> -1

SelectedNow ==
    IF NonFallback THEN scored[1].idx ELSE IF IsFallback THEN 0 ELSE -1

KeepsSafety(hs, c) ==
    \A i \in DOMAIN hs : (hs[i].temp > -30) <=> (hs[i].temp + c > -30)

ClimateMoods == {"low_battery", "character_development"}

\* C8 as claimed: every offset leaves the selection unchanged
C8_ShiftInvariantAlways ==
    (Done /\ mood_name \in ClimateMoods) =>
        \A c \in Offsets : Selection(mood_name, Shifted(hours, c), sun) = SelectedNow

\* C8 as amended: every offset that moves no hour across the -30 limit leaves
\* the selection unchanged
C8_ShiftInvariantWithinSafety ==
    (Done /\ mood_name \in ClimateMoods) =>
        \A c \in Offsets :
            KeepsSafety(hours, c) =>
                Selection(mood_name, Shifted(hours, c), sun) = SelectedNow

\* a recommendation among two safe hours of different temperature, and a
\* shift that keeps every hour on its side of the limit
C8_Witness ==
    /\ NonFallback /\ mood_name \in ClimateMoods
    /\ Len(hours) = 2 /\ HoursWithinLimits = {1, 2}
    /\ hours[1].temp # hours[2].temp
    /\ \E c \in Offsets :
          /\ KeepsSafety(hours, c)
          /\ Selection(mood_name, Shifted(hours, c), sun) = scored[1].idx

(***************************************************************************)
(* C10: the scorer registry and the text catalog have the same seven keys, *)
(* so no call with a registered mood ends in format_texts' KeyError.       *)
(***************************************************************************)
C10_RegistriesInLockStep ==
    /\ DIAGNOSTIC_MOODS = MOOD_CONTENT
    /\ Cardinality(DIAGNOSTIC_MOODS) = 7
    /\ (Done /\ Registered) => ~(result.kind = "raise" /\ result.exc = "KeyError")

\* format_texts was called and its texts are in the recommendation
C10_Witness ==
    /\ NonFallback
    /\ result.prescription = "prescription[" \o mood_name \o "]"

(***************************************************************************)
(* The range normaliser on its own: one call of _relative_position         *)
(***************************************************************************)
\* largest magnitude of val, lo and hi
MaxPos == 3

InitPos ==
    /\ val \in -MaxPos..MaxPos
    /\ lo \in -MaxPos..MaxPos
    /\ hi \in -MaxPos..MaxPos
    /\ pos = <<0, 1>>
    /\ pc = "position"
    /\ mood_name = "low_battery"
    /\ hours = <<>>
    /\ sun = [sunrise |-> FirstDt, sunset |-> FirstDt + 12]
    /\ who \in Identities
    /\ scored = <<>>
    /\ result = NoResult
    /\ IdleExcept({"pos"})

RelativePositionCall ==
    /\ pc = "position"
    /\ pos' = RelativePosition(val, lo, hi)
    /\ pc' = "positioned"
    /\ UNCHANGED <<val, lo, hi, engineVars, scoreVars, outcomes, walkVars, autoVars>>

NextPos == RelativePositionCall

SpecPos == InitPos /\ [][NextPos]_vars

(***************************************************************************)
(* C9: _relative_position is exactly 1/2 on a flat range; on lo < hi it is *)
(* within [0, 1], 0 at and below lo, 1 at and above hi, and                *)
(* (val - lo) / (hi - lo) in between.                                      *)
(***************************************************************************)
C9_RelativePosition ==
    pc = "positioned" =>
        /\ hi = lo => pos = <<1, 2>>
        /\ lo < hi =>
              /\ pos[2] > 0 /\ 0 <= pos[1] /\ pos[1] <= pos[2]
              /\ val <= lo => pos[1] = 0
              /\ val >= hi => pos[1] = pos[2]
              /\ (lo <= val /\ val <= hi) =>
                    pos[1] * (hi - lo) = (val - lo) * pos[2]

\* a flat range and a value off it
C9_Witness ==
    /\ pc = "positioned"
    /\ hi = lo /\ val # lo
    /\ pos = <<1, 2>>

(***************************************************************************)
(* A winter day: one call of pick_walk_window for low_battery on a batch   *)
(* of DayHours daylight hours between -12 and -6 degrees                    *)
(***************************************************************************)
\* hours of the day's batch
DayHours == 24

\* the temperature falls one degree an hour on both sides of the warmest
\* hour, from -6 down to -12
DayTemp(i, warmest) ==
    LET away == Abs(i - warmest) IN -6 - (IF away > 6 THEN 6 ELSE away)

\* wind, rain and cloud of the one hour that may differ from the rest of the
\* day, which has wind 2 m/s, rain 5 % and cloud 20 %: the same, calmer,
\* drier, overcast
DayOddHours ==
    {[wind_speed |-> 2, rain_prob |-> 5, cloud_cover |-> 20],
     [wind_speed |-> 1, rain_prob |-> 5, cloud_cover |-> 20],
     [wind_speed |-> 2, rain_prob |-> 0, cloud_cover |-> 20],
     [wind_speed |-> 2, rain_prob |-> 5, cloud_cover |-> 90]}

DayBatch(warmest, odd, o) ==
    [i \in 1..DayHours |->
        [dt |-> FirstDt + i - 1, temp |-> DayTemp(i, warmest),
         wind_speed |-> IF i = odd THEN o.wind_speed ELSE 2,
         rain_prob |-> IF i = odd THEN o.rain_prob ELSE 5,
         cloud_cover |-> IF i = odd THEN o.cloud_cover ELSE 20,
         uv_index |-> 2]]

DayBatches ==
    {DayBatch(warmest, odd, o) :
        warmest \in 1..DayHours, odd \in 1..DayHours, o \in DayOddHours}

InitDay ==
    /\ mood_name = "low_battery"
    /\ hours \in DayBatches
    /\ sun = [sunrise |-> FirstDt, sunset |-> FirstDt + DayHours]
    /\ who \in Identities
    /\ scored = <<>>
    /\ result = NoResult
    /\ pc = "call"
    /\ IdleExcept({})

SpecDay == InitDay /\ [][Next]_vars

(***************************************************************************)
(* C11: low_battery on a day of 24 safe daylight hours between -12 and -6  *)
(* with low wind and low rain recommends an hour of the warmest            *)
(* temperature, -6.  As claimed: for every such day.  As the code has it:  *)
(* for the days whose wind, rain and cloud cover are the same every hour.  *)
(***************************************************************************)
WarmestRecommended ==
    /\ NonFallback
    /\ hours[scored[1].idx].temp = -6
    /\ result.weather.temp = -6

SameSkyAllDay ==
    \A i, j \in DOMAIN hours :
        /\ hours[i].wind_speed = hours[j].wind_speed
        /\ hours[i].rain_prob = hours[j].rain_prob
        /\ hours[i].cloud_cover = hours[j].cloud_cover

\* C11 as claimed: every such day ends with the warmest hour recommended
C11_WarmestHourAlways == Done => WarmestRecommended

\* C11 as amended: every such day with the same wind, rain and cloud cover
\* on every hour ends with the warmest hour recommended
C11_WarmestHourSameSky == (Done /\ SameSkyAllDay) => WarmestRecommended

\* the warmest hour is not the first of the batch and is recommended
C11_Witness ==
    /\ Done /\ SameSkyAllDay /\ WarmestRecommended
    /\ Len(hours) >= 24
    /\ scored[1].idx > 1
    /\ \E i \in DOMAIN hours : hours[i].temp = -12

(***************************************************************************)
(* A rough day: one call of pick_walk_window for character_development on  *)
(* batches that may hold one hour colder, windier and wetter than the rest *)
(***************************************************************************)
\* most hours of a rough batch
ArcHours == 3

\* <<temp, wind_speed, rain_prob, cloud_cover>>: the rough hour under a
\* clear and an overcast sky, the rough hour on the cold and on the wind
\* limit, three nearly as rough hours, a mild hour
ArcReadings ==
    {<<-12, 13, 85, 0>>, <<-12, 13, 85, 100>>,
     <<UNSAFE_TEMP_MIN, 13, 85, 50>>, <<-12, UNSAFE_WIND_MS, 85, 50>>,
     <<-11, 12, 84, 100>>, <<-11, 12, 84, 0>>, <<4, 12, 84, 100>>,
     <<4, 3, 10, 50>>}

ArcHourAt(i, r) ==
    [dt |-> FirstDt + i - 1, temp |-> r[1], wind_speed |-> r[2],
     rain_prob |-> r[3], cloud_cover |-> r[4], uv_index |-> 2]

ArcBatches ==
    UNION {{[i \in 1..n |-> ArcHourAt(i, f[i])] : f \in [1..n -> ArcReadings]} :
              n \in 1..ArcHours}

InitArc ==
    /\ mood_name = "character_development"
    /\ hours \in ArcBatches
    /\ sun \in SunVals
    /\ who \in Identities
    /\ scored = <<>>
    /\ result = NoResult
    /\ pc = "call"
    /\ IdleExcept({})

SpecArc == InitArc /\ [][Next]_vars

(***************************************************************************)
(* C12: character_development recommends the hour that is at once the      *)
(* coldest, the windiest and the wettest of the batch.  As claimed: for    *)
(* every batch with such an hour.  As the code has it: when that hour      *)
(* passes the safety filter and no safe hour has more cloud cover.         *)
(***************************************************************************)
Roughest(i) ==
    \A j \in DOMAIN hours \ {i} :
        /\ hours[i].temp < hours[j].temp
        /\ hours[i].wind_speed > hours[j].wind_speed
        /\ hours[i].rain_prob > hours[j].rain_prob

Cloudiest(i) ==
    \A j \in SafeIndices(hours) : hours[j].cloud_cover <= hours[i].cloud_cover

Recommends(i) ==
    /\ NonFallback
    /\ scored[1].idx = i
    /\ result.recommended_time = TimeStr(hours[i].dt)
    /\ result.weather.temp = hours[i].temp
    /\ result.weather.wind = hours[i].wind_speed
    /\ result.weather.rain_probability = hours[i].rain_prob

\* C12 as claimed: the coldest, windiest and wettest hour is recommended
C12_RoughestAlways ==
    Done => \A i \in DOMAIN hours : Roughest(i) => Recommends(i)

\* C12 as amended: the coldest, windiest and wettest hour is recommended
\* when it is safe and no safe hour is cloudier
C12_RoughestSafeCloudiest ==
    Done => \A i \in DOMAIN hours :
                (Roughest(i) /\ IsSafe(hours[i]) /\ Cloudiest(i)) => Recommends(i)

\* the roughest hour is the last of three, under a clear sky like a milder
\* hour before it, and is recommended
C12_Witness ==
    /\ Done /\ Len(hours) >= 3
    /\ \E i \in DOMAIN hours :
         /\ i > 2 /\ Roughest(i) /\ IsSafe(hours[i]) /\ Cloudiest(i)
         /\ Recommends(i)
         /\ hours[i].cloud_cover = 0
         /\ hours[1].cloud_cover = 0

(***************************************************************************)
(* C13: for low_battery and posture_emergency an hour outside the          *)
(* inclusive interval [sunrise, sunset] scores exactly 0, so it is never   *)
(* recommended, and the call returns the fallback when no safe hour lies   *)
(* in daylight.                                                            *)
(***************************************************************************)
DaylightMoods == {"low_battery", "posture_emergency"}

\* the timestamp is within [sunrise, sunset], both ends included
WithinDaylight(h) == ~(h.dt < sun.sunrise \/ h.dt > sun.sunset)

SafeDaylightHours ==
    {i \in DOMAIN hours : WithinLimits(hours[i]) /\ WithinDaylight(hours[i])}

DarkHoursScoreZero ==
    \A k \in DOMAIN scored :
        ~WithinDaylight(hours[scored[k].idx]) => scored[k].score = RInt(0)

DarkHourNeverRecommended ==
    NonFallback => \E i \in SafeDaylightHours :
                       result.recommended_time = TimeStr(hours[i].dt)

\* C13: dark hours score 0, are never recommended, and a batch without a
\* safe daylight hour ends in the fallback
C13_DaylightGate ==
    (Done /\ mood_name \in DaylightMoods) =>
        /\ DarkHoursScoreZero
        /\ DarkHourNeverRecommended
        /\ SafeDaylightHours = {} => IsFallback

(***************************************************************************)
(* One call of a scorer, DIAGNOSTIC_MOODS[mood_name](hour, sun, ranges),   *)
(* on arguments that need not come from one batch                          *)
(***************************************************************************)
\* the hours of the engine's batches, a mild hour in the middle of the
\* ranges, and hours that are cold or warm, windy and wet under an overcast,
\* high-UV sky
ScoreReadings ==
    Readings \cup
    {[temp |-> -6, wind_speed |-> 8, rain_prob |-> 10, cloud_cover |-> 50,
      uv_index |-> 2],
     [temp |-> -12, wind_speed |-> 13, rain_prob |-> 85, cloud_cover |-> 90,
      uv_index |-> 8],
     [temp |-> 4, wind_speed |-> 13, rain_prob |-> 85, cloud_cover |-> 90,
      uv_index |-> 8]}

\* (lo, hi) pairs for temperature, wind and rain: wide, narrow, degenerate,
\* and leaving some readings outside
TempRanges == {<<UNSAFE_TEMP_MIN, 4>>, <<-12, 4>>, <<4, 4>>, <<-12, -6>>}

WindRanges == {<<3, UNSAFE_WIND_MS>>, <<3, 13>>, <<3, 3>>, <<8, 13>>}

RainRanges == {<<10, UNSAFE_RAIN_PCT>>, <<10, 85>>, <<10, 10>>, <<85, 85>>}

InitScore ==
    /\ mood_name \in DIAGNOSTIC_MOODS
    /\ sun \in SunVals
    /\ hour \in {HourAt(1, r) : r \in ScoreReadings}
    /\ ranges \in [temp : TempRanges, wind : WindRanges, rain : RainRanges]
    /\ score = <<0, 1>>
    /\ pc = "score"
    /\ hours = <<>>
    /\ who \in Identities
    /\ scored = <<>>
    /\ result = NoResult
    /\ IdleExcept({"score"})

\* score = scorer(h, sun, temp_range, wind_range, rain_range)
ScoreCall ==
    /\ pc = "score"
    /\ score' = Scorer(mood_name, hour, sun,
                       ranges.temp[1], ranges.temp[2],
                       ranges.wind[1], ranges.wind[2],
                       ranges.rain[1], ranges.rain[2])
    /\ pc' = "scored"
    /\ UNCHANGED <<engineVars, posVars, hour, ranges, outcomes, walkVars, autoVars>>

NextScore == ScoreCall

SpecScore == InitScore /\ [][NextScore]_vars

ScoreReturned == pc = "scored"

(***************************************************************************)
(* C14: every scorer returns a non-negative score on every input;          *)
(* burnout_recovery never returns more than 110, hygiene_intervention and  *)
(* character_development never more than 100.                              *)
(***************************************************************************)
C14_ScoreBounds ==
    ScoreReturned =>
        /\ RLe(RInt(0), score)
        /\ mood_name = "burnout_recovery" => RLe(score, RInt(110))
        /\ mood_name \in {"hygiene_intervention", "character_development"}
               => RLe(score, RInt(100))

\* burnout_recovery on a mild, dry, half-clouded daylight hour in the lower
\* middle of the temperature range: 111.375 before the ceiling, 110 returned
C14_Witness ==
    /\ ScoreReturned
    /\ mood_name = "burnout_recovery"
    /\ IsDaylight(hour, sun)
    /\ hour.temp = -6 /\ ranges.temp = <<-12, 4>>
    /\ hour.wind_speed = 8 /\ ranges.wind = <<3, 13>>
    /\ hour.rain_prob = 10 /\ ranges.rain = <<10, 85>>
    /\ hour.cloud_cover = 50
    /\ score = RInt(110)

(***************************************************************************)
(* Weather notes: one call of pick_walk_window on daylight batches of safe *)
(* hours on both sides of every threshold of _condition_commentary         *)
(***************************************************************************)
\* most hours of a batch
NoteHours == 2

\* temperature around -10 and 0, wind around 12, rain around 80
NoteReadings ==
    {[temp |-> t, wind_speed |-> w, rain_prob |-> r, cloud_cover |-> 20,
      uv_index |-> 2] : t \in {-11, -10, -1, 0}, w \in {12, 13}, r \in {80, 81}}

NoteBatches ==
    UNION {{[i \in 1..n |-> HourAt(i, f[i])] : f \in [1..n -> NoteReadings]} :
              n \in 1..NoteHours}

InitNote ==
    /\ mood_name \in DIAGNOSTIC_MOODS
    /\ hours \in NoteBatches
    /\ sun = [sunrise |-> FirstDt, sunset |-> FirstDt + 12]
    /\ who \in Identities
    /\ scored = <<>>
    /\ result = NoResult
    /\ pc = "call"
    /\ IdleExcept({})

SpecNote == InitNote /\ [][Next]_vars

(***************************************************************************)
(* C15: the weather note is exactly one of: frozen ground iff temp < -10;  *)
(* else below zero iff temp < 0; else high wind iff wind > 12; else heavy  *)
(* rain iff rain > 80; else empty.  Two notes are never combined, and the  *)
(* diagnosis of a non-fallback recommendation is the note of the selected  *)
(* hour followed by the mood's diagnosis text.                             *)
(***************************************************************************)
FrozenGround(h) == h.temp < -10

BelowZero(h) == ~FrozenGround(h) /\ h.temp < 0

HighWind(h) == ~FrozenGround(h) /\ ~BelowZero(h) /\ h.wind_speed > 12

HeavyRain(h) ==
    ~FrozenGround(h) /\ ~BelowZero(h) /\ ~HighWind(h) /\ h.rain_prob > 80

NoteTexts(h) ==
    {"It is " \o ToString(h.temp) \o "C outside. Paw-freezing territory. Frozen ground protocol engaged. ",
     "Below zero at " \o ToString(h.temp) \o "C. Bundle them up and go anyway. ",
     "Wind at " \o ToString(h.wind_speed) \o " m/s. Hold onto your human. ",
     "Heavy rain incoming. Nature's power-wash activated. ",
     ""}

\* the note is the text of the first condition that holds
IsNoteOf(note, h) ==
    /\ note \in NoteTexts(h)
    /\ FrozenGround(h) <=>
         note = "It is " \o ToString(h.temp) \o "C outside. Paw-freezing territory. Frozen ground protocol engaged. "
    /\ BelowZero(h) <=>
         note = "Below zero at " \o ToString(h.temp) \o "C. Bundle them up and go anyway. "
    /\ HighWind(h) <=>
         note = "Wind at " \o ToString(h.wind_speed) \o " m/s. Hold onto your human. "
    /\ HeavyRain(h) <=>
         note = "Heavy rain incoming. Nature's power-wash activated. "

C15_SingleNote ==
    NonFallback =>
        LET h == hours[scored[1].idx]
            text == FormatTexts(mood_name, who.human_name, who.relationship).diagnosis
        IN  \E note \in NoteTexts(h) :
                /\ IsNoteOf(note, h)
                /\ result.diagnosis = note \o text

\* the recommended hour, the second of its batch, is frozen, windy and wet at
\* once and the diagnosis opens with the frozen-ground note alone
C15_Witness ==
    /\ NonFallback
    /\ scored[1].idx = 2
    /\ LET h == hours[2]
       IN  /\ h.temp < -10 /\ h.wind_speed > 12 /\ h.rain_prob > 80
           /\ result.diagnosis =
                "It is " \o ToString(h.temp) \o "C outside. Paw-freezing territory. Frozen ground protocol engaged. "
                \o FormatTexts(mood_name, who.human_name, who.relationship).diagnosis

(***************************************************************************)
(* Two calls of pick_walk_window, one after the other, on the same         *)
(* arguments; outcomes holds what each call computed and returned          *)
(***************************************************************************)
\* most hours of a batch that is scored twice
TwiceHours == 1

TwiceBatches ==
    UNION {{[i \in 1..n |-> HourAt(i, f[i])] : f \in [1..n -> Readings]} :
              n \in 0..TwiceHours}

InitTwice ==
    /\ mood_name \in MoodNames
    /\ hours \in TwiceBatches
    /\ sun \in SunVals
    /\ who \in Identities
    /\ scored = <<>>
    /\ result = NoResult
    /\ outcomes = <<>>
    /\ pc = "first_call"
    /\ IdleExcept({"twice"})

\* one of the two calls: the arguments are the same, random.choice draws anew
PickWalkWindowOnce ==
    /\ pc \in {"first_call", "second_call"}
    /\ LET path == PickWalkWindowPath(mood_name, hours, sun)
       IN  \E choice \in DIAGNOSTIC_FALLBACKS :
             outcomes' =
                 Append(outcomes,
                        [scored |-> path.scored,
                         result |-> PickWalkWindowResult(path, mood_name, hours,
                                                         who, choice)])
    /\ pc' = IF pc = "first_call" THEN "second_call" ELSE "both_done"
    /\ UNCHANGED <<engineVars, posVars, scoreVars, walkVars, autoVars>>

NextTwice == PickWalkWindowOnce

SpecTwice == InitTwice /\ [][NextTwice]_vars

(***************************************************************************)
(* C16: two calls with identical arguments produce identical scores; a    *)
(* non-fallback outcome is identical in every field; fallback outcomes    *)
(* agree in every field except diagnosis, and each diagnosis is one of    *)
(* the four messages of the fallback pool.                                *)
(***************************************************************************)
BothDone == pc = "both_done"

SameBut(r1, r2, field) ==
    \A f \in DOMAIN r1 \ {field} : r1[f] = r2[f]

SpecFloor == (Init \/ InitScore) /\ [][Next \/ NextScore]_vars

(***************************************************************************)
(* C17: for the five moods that start from 100, a safe hour that meets the *)
(* mood's daylight condition (low_battery and posture_emergency only)      *)
(* scores at least 10 whatever the ranges, cloud cover and UV; hence       *)
(* pick_walk_window returns the fallback for these moods only when the     *)
(* batch has no safe hour, or no safe daylight hour for the two daylight   *)
(* moods.                                                                  *)
(***************************************************************************)
BaselineMoods ==
    {"low_battery", "posture_emergency", "doomscroll_detox", "burnout_recovery",
     "long_term_health"}

EligibleHour(h) ==
    /\ WithinLimits(h)
    /\ mood_name \in DaylightMoods => WithinDaylight(h)

C17_BaselineFloor ==
    /\ (ScoreReturned /\ mood_name \in BaselineMoods /\ EligibleHour(hour))
           => RLe(RInt(10), score)
    /\ (IsFallback /\ mood_name \in BaselineMoods)
           => ~ \E i \in DOMAIN hours : EligibleHour(hours[i])

\* long_term_health at its lowest: the warmest, windiest, wettest hour of
\* its ranges under high UV scores 13.5
C17_Witness ==
    /\ ScoreReturned
    /\ mood_name = "long_term_health"
    /\ EligibleHour(hour)
    /\ hour.uv_index > 7
    /\ hour.temp = ranges.temp[2] /\ ranges.temp[1] < hour.temp
    /\ hour.wind_speed = ranges.wind[2] /\ ranges.wind[1] < hour.wind_speed
    /\ hour.rain_prob = ranges.rain[2] /\ ranges.rain[1] < hour.rain_prob
    /\ score = Rat(27, 2)

(***************************************************************************)
(* POST /walks: one request handled by create_walk                         *)
(***************************************************************************)
\* the names bound in the module namespace of routers/walks.py, with the
\* value of the one that is read as data
WalksGlobals ==
    [APIRouter |-> "import", HTTPException |-> "import",
     get_supabase |-> "import", WalkRecommendation |-> "import",
     WalkRequest |-> "import", DIAGNOSTIC_MOODS |-> DIAGNOSTIC_MOODS,
     pick_walk_window |-> "import", fetch_hourly_forecast |-> "import",
     geocode_city |-> "import", router |-> "def", list_moods |-> "def",
     create_walk |-> "def"]

\* fields WalkRecommendation requires, and the keys of the dict
\* pick_walk_window returns
WalkRecommendationFields ==
    {"dog_name", "mood_name", "diagnosis", "prescription", "experts_recommend",
     "recommended_time", "weather"}

RecKeys ==
    {"mood", "recommended_time", "diagnosis", "prescription",
     "experts_recommend", "weather", "dog_name", "human_name",
     "human_relationship"}

\* an exception that is not an HTTPException leaves the handler: the server
\* answers 500
Http(status, detail) == [status |-> status, detail |-> detail]

ServerError(exc) == Http(500, exc)

EngineIdle ==
    /\ mood_name = "low_battery"
    /\ hours = <<>>
    /\ sun = [sunrise |-> FirstDt, sunset |-> FirstDt + 12]
    /\ who \in Identities
    /\ scored = <<>>
    /\ result = NoResult

WalkBodies ==
    [dog_name : {"Rex", "Ghost"}, city : {"Oslo"}, mood_name : MoodNames,
     has_coords : BOOLEAN]

InitWalk ==
    /\ body \in WalkBodies
    /\ dogs \in {{}, {[id |-> 1, dog_name |-> "Rex", human_name |-> "Sam",
                      human_relationship |-> "mom"]}}
    /\ geo \in {"found", "not_found"}
    /\ hourly \in {<<>>} \cup {<<HourAt(1, r)>> : r \in Readings}
    /\ response = <<>>
    /\ steps = <<>>
    /\ walk_requests = <<>>
    /\ pc = "request"
    /\ EngineIdle
    /\ IdleExcept({"walk"})

\* create_walk once pick_walk_window has returned or raised: the insert
\* into walk_requests, then WalkRecommendation(**rec)
WalkAfterEngine(rec, dog, done) ==
    IF rec.kind = "raise"
    THEN [response |-> ServerError(rec.exc), steps |-> done,
          rows |-> walk_requests]
    ELSE [response |->
              IF WalkRecommendationFields \subseteq RecKeys
              THEN Http(200, rec.diagnosis)
              ELSE ServerError("ValidationError"),
          steps |-> Append(done, "insert"),
          rows |-> Append(walk_requests,
                          [dog_id |-> dog.id, city |-> body.city,
                           mood_name |-> body.mood_name,
                           recommended_time |-> rec.recommended_time,
                           weather_summary |-> rec.diagnosis])]

\* create_walk from the mood check on; moods is the value ALL_MOODS names
WalkAfterMoodCheck(moods, choice) ==
    IF body.mood_name \notin moods
    THEN [response |-> Http(400, "Unknown mood"), steps |-> <<>>,
          rows |-> walk_requests]
    ELSE
    LET found == {d \in dogs : d.dog_name = body.dog_name}
    IN  IF found = {}
        THEN [response |-> Http(404, "Dog not found"),
              steps |-> <<"dog_lookup">>, rows |-> walk_requests]
        ELSE
        LET dog == CHOOSE d \in found : TRUE
            located == IF body.has_coords THEN <<"dog_lookup">>
                       ELSE <<"dog_lookup", "geocode">>
        IN  IF ~body.has_coords /\ geo = "not_found"
            THEN [response |-> ServerError("ValueError"), steps |-> located,
                  rows |-> walk_requests]
            ELSE IF hourly = <<>>
            THEN [response |-> Http(502, "Weather service returned no data."),
                  steps |-> Append(located, "fetch"), rows |-> walk_requests]
            ELSE
            WalkAfterEngine(
                PickWalkWindowResult(
                    PickWalkWindowPath(body.mood_name, hourly, sun),
                    body.mood_name, hourly,
                    [dog_name |-> dog.dog_name, human_name |-> dog.human_name,
                     relationship |-> dog.human_relationship],
                    choice),
                dog, located \o <<"fetch", "engine">>)

\* create_walk: the first statement reads the global name ALL_MOODS
CreateWalk ==
    /\ pc = "request"
    /\ \E choice \in DIAGNOSTIC_FALLBACKS :
         LET out == IF "ALL_MOODS" \notin DOMAIN WalksGlobals
                    THEN [response |-> ServerError("NameError"),
                          steps |-> <<>>, rows |-> walk_requests]
                    ELSE WalkAfterMoodCheck(WalksGlobals["ALL_MOODS"], choice)
         IN  /\ response' = out.response
             /\ steps' = out.steps
             /\ walk_requests' = out.rows
    /\ pc' = "responded"
    /\ UNCHANGED <<engineVars, posVars, scoreVars, outcomes,
                   body, dogs, geo, hourly, autoVars>>

NextWalk == CreateWalk

SpecWalk == InitWalk /\ [][NextWalk]_vars

(***************************************************************************)
(* C18: create_walk answers an unregistered mood_name with HTTP 400        *)
(* "Unknown mood" before any dog lookup, geocoding, weather fetch, engine  *)
(* call or insert, and lets a registered mood_name continue to the dog     *)
(* lookup.                                                                 *)
(***************************************************************************)
Responded == pc = "responded"

C18_UnknownMoodRejected ==
    Responded =>
        /\ body.mood_name \notin DIAGNOSTIC_MOODS =>
              /\ response = Http(400, "Unknown mood")
              /\ steps = <<>>
              /\ walk_requests = <<>>
        /\ body.mood_name \in DIAGNOSTIC_MOODS =>
              /\ steps # <<>>
              /\ steps[1] = "dog_lookup"

(***************************************************************************)
(* GET /autocomplete: concurrent autocomplete_city requests on one event   *)
(* loop.  A task runs from one await to the next without interruption;     *)
(* the awaits are the lock, asyncio.sleep and client.get.  Time is in      *)
(* whole seconds.                                                          *)
(***************************************************************************)
\* concurrent requests
NumTasks == 2

\* advances of the clock in one run
MaxTicks == 3

CACHE_TTL == 3600

\* q as a string of characters
Queries == {<<"o", "s">>, <<"O", "s", " ">>, <<"r", "o">>}

RECURSIVE StripLeft(_)
StripLeft(q) ==
    IF q # <<>> /\ Head(q) = " " THEN StripLeft(Tail(q)) ELSE q

RECURSIVE StripRight(_)
StripRight(q) ==
    IF q # <<>> /\ q[Len(q)] = " "
    THEN StripRight(SubSeq(q, 1, Len(q) - 1)) ELSE q

\* str.strip
Strip(q) == StripRight(StripLeft(q))

\* str.lower
Lower(q) ==
    [i \in DOMAIN q |-> CASE q[i] = "O" -> "o"
                          [] q[i] = "S" -> "s"
                          [] q[i] = "R" -> "r"
                          [] OTHER -> q[i]]

CacheKey(q) == Lower(Strip(q))

Keys == {CacheKey(q) : q \in Queries}

\* what Nominatim may answer
RawResults ==
    {<<>>,
     <<[name |-> "Oslo", state |-> "", country |-> "Norway", lat |-> 60, lon |-> 11]>>,
     <<[name |-> "Os", state |-> "Vestland", country |-> "Norway", lat |-> 60, lon |-> 5]>>}

\* ", ".join(filter(None, [name, state, country]))
FullName(r) ==
    r.name \o (IF r.state = "" THEN "" ELSE ", " \o r.state)
           \o (IF r.country = "" THEN "" ELSE ", " \o r.country)

BuildResults(raw) ==
    [i \in DOMAIN raw |->
        [name |-> raw[i].name, full_name |-> FullName(raw[i]),
         lat |-> raw[i].lat, lon |-> raw[i].lon]]

TaskIds == 1..NumTasks

NoEntry == [set |-> FALSE, ts |-> 0, results |-> <<>>]

NewTask ==
    [pc |-> "idle", q |-> <<>>, key |-> <<>>, wake |-> 0,
     from_cache |-> FALSE, value |-> <<>>]

InitAuto ==
    /\ now \in {0, 2}
    /\ ticks = 0
    /\ cache = [k \in Keys |-> NoEntry]
    /\ rate_lock = [holder |-> 0, waiters |-> <<>>]
    /\ last_request_at = 0
    /\ tasks = [t \in TaskIds |-> NewTask]
    /\ sent = <<>>
    /\ stored = <<>>
    /\ pc = "serving"
    /\ EngineIdle
    /\ IdleExcept({"auto"})

\* key in _cache and time.monotonic() - ts < _CACHE_TTL
Fresh(key) == cache[key].set /\ now - cache[key].ts < CACHE_TTL

\* client.get is called: the outbound request starts
Send(t, tk) ==
    [task |-> [tk EXCEPT !.pc = "in_flight"],
     sent |-> Append(sent, [task |-> t, key |-> tk.key, start |-> now,
                            cached |-> Fresh(tk.key)])]

\* inside the lock: wait = 1.0 - (time.monotonic() - _last_request_at),
\* then asyncio.sleep(wait) or straight on to client.get
Enter(t, tk) ==
    LET wait == 1 - (now - last_request_at)
    IN  IF wait > 0
        THEN [task |-> [tk EXCEPT !.pc = "sleeping", !.wake = now + wait],
              sent |-> sent]
        ELSE Send(t, tk)

\* a request arrives and runs to its first await or to its return
Arrive(t) ==
    /\ pc = "serving"
    /\ tasks[t].pc = "idle"
    /\ \E q \in Queries :
         LET key == CacheKey(q)
             tk == [tasks[t] EXCEPT !.q = q, !.key = key]
         IN  IF Fresh(key)
             THEN /\ tasks' = [tasks EXCEPT ![t] =
                                 [tk EXCEPT !.pc = "returned", !.from_cache = TRUE,
                                            !.value = cache[key].results]]
                  /\ UNCHANGED <<rate_lock, sent>>
             ELSE IF rate_lock.holder = 0 /\ rate_lock.waiters = <<>>
             THEN LET e == Enter(t, tk)
                  IN  /\ rate_lock' = [rate_lock EXCEPT !.holder = t]
                      /\ tasks' = [tasks EXCEPT ![t] = e.task]
                      /\ sent' = e.sent
             ELSE /\ rate_lock' = [rate_lock EXCEPT
                                     !.waiters = Append(rate_lock.waiters, t)]
                  /\ tasks' = [tasks EXCEPT ![t] = [tk EXCEPT !.pc = "waiting"]]
                  /\ UNCHANGED sent
    /\ UNCHANGED <<now, ticks, cache, last_request_at, stored>>
    /\ UNCHANGED <<pc, engineVars, posVars, scoreVars, outcomes, walkVars>>

\* the released lock goes to the first waiter, which runs to its next await
Granted(t) ==
    /\ pc = "serving"
    /\ tasks[t].pc = "waiting"
    /\ rate_lock.holder = 0
    /\ rate_lock.waiters # <<>> /\ Head(rate_lock.waiters) = t
    /\ LET e == Enter(t, tasks[t])
       IN  /\ rate_lock' = [holder |-> t, waiters |-> Tail(rate_lock.waiters)]
           /\ tasks' = [tasks EXCEPT ![t] = e.task]
           /\ sent' = e.sent
    /\ UNCHANGED <<now, ticks, cache, last_request_at, stored>>
    /\ UNCHANGED <<pc, engineVars, posVars, scoreVars, outcomes, walkVars>>

\* asyncio.sleep(wait) is over
Wake(t) ==
    /\ pc = "serving"
    /\ tasks[t].pc = "sleeping"
    /\ now >= tasks[t].wake
    /\ LET e == Send(t, tasks[t])
       IN  /\ tasks' = [tasks EXCEPT ![t] = e.task]
           /\ sent' = e.sent
    /\ UNCHANGED <<now, ticks, cache, rate_lock, last_request_at, stored>>
    /\ UNCHANGED <<pc, engineVars, posVars, scoreVars, outcomes, walkVars>>

\* client.get returns: _last_request_at is set, the lock is released, the
\* results are built, cached and returned
Respond(t) ==
    /\ pc = "serving"
    /\ tasks[t].pc = "in_flight"
    /\ \E raw \in RawResults :
         LET results == BuildResults(raw)
         IN  /\ cache' = [cache EXCEPT ![tasks[t].key] =
                            [set |-> TRUE, ts |-> now, results |-> results]]
             /\ stored' = Append(stored, [key |-> tasks[t].key, ts |-> now,
                                          results |-> results])
             /\ tasks' = [tasks EXCEPT ![t] =
                            [@ EXCEPT !.pc = "returned", !.value = results]]
    /\ last_request_at' = now
    /\ rate_lock' = [rate_lock EXCEPT !.holder = 0]
    /\ UNCHANGED <<now, ticks, sent>>
    /\ UNCHANGED <<pc, engineVars, posVars, scoreVars, outcomes, walkVars>>

\* client.get raises (timeout, connection error): the exception leaves the
\* two `async with` blocks, the lock is released, nothing else is written
Fail(t) ==
    /\ pc = "serving"
    /\ tasks[t].pc = "in_flight"
    /\ tasks' = [tasks EXCEPT ![t] = [@ EXCEPT !.pc = "failed"]]
    /\ rate_lock' = [rate_lock EXCEPT !.holder = 0]
    /\ UNCHANGED <<now, ticks, cache, last_request_at, sent, stored>>
    /\ UNCHANGED <<pc, engineVars, posVars, scoreVars, outcomes, walkVars>>

\* time.monotonic() moves on
Tick ==
    /\ pc = "serving"
    /\ ticks < MaxTicks
    /\ \E d \in {1, CACHE_TTL} : now' = now + d
    /\ ticks' = ticks + 1
    /\ UNCHANGED <<cache, rate_lock, last_request_at, tasks, sent, stored>>
    /\ UNCHANGED <<pc, engineVars, posVars, scoreVars, outcomes, walkVars>>

NextAuto ==
    \/ \E t \in TaskIds : Arrive(t)
    \/ \E t \in TaskIds : Granted(t)
    \/ \E t \in TaskIds : Wake(t)
    \/ \E t \in TaskIds : Respond(t)
    \/ \E t \in TaskIds : Fail(t)
    \/ Tick

SpecAuto == InitAuto /\ [][NextAuto]_vars

(***************************************************************************)
(* C19: under every interleaving at most one outbound request is in        *)
(* flight, and every outbound request starts at least 1 second after the   *)
(* previous one was made, also when the previous one failed.               *)
(***************************************************************************)
InFlight == {t \in DOMAIN tasks : tasks[t].pc = "in_flight"}

OneInFlight == Cardinality(InFlight) <= 1

SpacedBySecond ==
    \A i \in DOMAIN sent :
        i > 1 => sent[i].start - sent[i - 1].start >= 1

C19_RateLimit == OneInFlight /\ SpacedBySecond

(***************************************************************************)
(* C20: once a request has stored results for a key, no outbound request  *)
(* is issued for that key until the entry is older than the TTL, under     *)
(* every interleaving; a request served from the cache returns exactly    *)
(* the stored list.                                                        *)
(***************************************************************************)
NoSendWhileCached == \A i \in DOMAIN sent : ~sent[i].cached

ServedAsStored ==
    \A t \in DOMAIN tasks :
        (tasks[t].pc = "returned" /\ tasks[t].from_cache) =>
            \E i \in DOMAIN stored :
                /\ stored[i].key = tasks[t].key
                /\ stored[i].results = tasks[t].value

C20_CacheShields == NoSendWhileCached /\ ServedAsStored

====
